---- MODULE Spec2Model ----
(***************************************************************************)
(* A model of ae-score.py: the checkpoint cache (ensure_model,             *)
(* clear_cache), file discovery (get_files), device selection (get_device) *)
(* and the scoring pipeline of main (chunked scoring, sorting, reporting,  *)
(* save_to_csv).                                                           *)
(*                                                                         *)
(* Python strings are TLA+ strings.  An optional value (None or a value)   *)
(* is a sequence of length 0 or 1.  A Python dict object that is shared    *)
(* between lists is an index into the sequence heap.                       *)
(***************************************************************************)
EXTENDS Integers, Sequences, FiniteSets, TLC

VARIABLES
    cache,          \* the user cache directory: [exists, files]
    calls,          \* the ensure_model / clear_cache calls made so far, with what each did
    fs,             \* the directory tree under args.image_file_or_dir: Seq of [kind, name, parent]
    rootKind,       \* "dir" or "file": what args.image_file_or_dir itself is
    predict,        \* the score the predictor gives each image file (opaque network)
    cuda,           \* torch.cuda.is_available()
    args,           \* the parsed command line
    pc,             \* position in main
    error,          \* the exception that ended the run ("" when none)
    device,         \* main's device
    predictor,      \* main's predictor: <<>> or <<[device, input_size]>>
    clip_model,     \* main's clip_model: <<>> or <<[device, name]>>
    files,          \* main's files
    next_i,         \* the index (0-based) at which chunks' range stands
    n_chunks,       \* the number of chunks the loop has taken
    progress_bar,   \* main's progress_bar: <<>> (unbound) or <<[total, n, postfix]>>
    heap,           \* the score dicts, in creation order: Seq of [file, score]
    scores,         \* main's scores: Seq of heap indices
    sorted_scores,  \* main's sorted_scores: Seq of heap indices
    acc_scores,     \* main's acc_scores
    printed,        \* the lines printed by the report: Seq of tuples
    csv             \* the CSV file written: Seq of rows (<<>>: no file written)

cacheVars == <<cache, calls>>
treeVars == <<fs, rootKind, predict, cuda, args>>
mainVars == <<pc, error, device, predictor, clip_model, files, next_i, n_chunks,
              progress_bar, heap, scores, sorted_scores, acc_scores, printed, csv>>
vars == <<cacheVars, treeVars, mainVars>>

----------------------------------------------------------------------------
(* Bounds of the model *)

MaxCalls == 3
MaxNodes == 3
MaxFiles == 3
MaxBatch == 3
MaxScore == 1

----------------------------------------------------------------------------
(* Python helpers *)

None == <<>>
Some(v) == <<v>>

Range(s) == {s[i] : i \in DOMAIN s}

Min(a, b) == IF a < b THEN a ELSE b

\* math.ceil(a / b) for a >= 0, b >= 1
ceil(a, b) == (a + b - 1) \div b

UpperCase == "ABCDEFGHIJKLMNOPQRSTUVWXYZ"
LowerCase == "abcdefghijklmnopqrstuvwxyz"

\* The lower-case letter of each upper-case letter
LowerMap ==
    [c \in {SubSeq(UpperCase, i, i) : i \in 1..Len(UpperCase)} |->
        LET i == CHOOSE j \in 1..Len(UpperCase) : SubSeq(UpperCase, j, j) = c
        IN  SubSeq(LowerCase, i, i)]

\* str.lower() of a one-character string
LowerChar(c) == IF c \in DOMAIN LowerMap THEN LowerMap[c] ELSE c

RECURSIVE lower(_)
lower(s) == IF s = "" THEN "" ELSE LowerChar(SubSeq(s, 1, 1)) \o lower(Tail(s))

\* str.endswith(suffix)
endswith(s, suffix) ==
    /\ Len(s) >= Len(suffix)
    /\ SubSeq(s, Len(s) - Len(suffix) + 1, Len(s)) = suffix

\* str.endswith(tuple of suffixes)
endswith_any(s, suffixes) == \E i \in DOMAIN suffixes : endswith(s, suffixes[i])

startswith(s, prefix) ==
    /\ Len(s) >= Len(prefix)
    /\ SubSeq(s, 1, Len(prefix)) = prefix

\* os.path.join(a, b) on posix
path_join(a, b) ==
    IF startswith(b, "/") THEN b
    ELSE IF a = "" \/ endswith(a, "/") THEN a \o b
    ELSE a \o "/" \o b

\* The parts of s between its "/" characters
split_slash(s) ==
    LET slashes == SelectSeq([i \in 1..Len(s) |-> i], LAMBDA i : SubSeq(s, i, i) = "/")
        cuts == <<0>> \o slashes \o <<Len(s) + 1>>
    IN  [k \in 1..(Len(cuts) - 1) |-> SubSeq(s, cuts[k] + 1, cuts[k + 1] - 1)]

\* The parts pathlib keeps: the empty ones and "." are dropped (".." is kept)
path_parts(s) == SelectSeq(split_slash(s), LAMBDA c : c # "" /\ c # ".")

\* "/".join(parts)
RECURSIVE join_slash(_)
join_slash(parts) ==
    IF parts = <<>> THEN ""
    ELSE IF Len(parts) = 1 THEN parts[1]
    ELSE parts[1] \o "/" \o join_slash(Tail(parts))

\* The anchor of a posix path: exactly two leading slashes are kept
path_anchor(s) ==
    IF startswith(s, "//") /\ ~startswith(s, "///") THEN "//"
    ELSE IF startswith(s, "/") THEN "/"
    ELSE ""

\* str(Path(s)) on posix: repeated and trailing slashes and "." parts are
\* dropped, the empty path is "."
Path(s) ==
    LET root == path_anchor(s)
        parts == path_parts(s)
    IN  IF parts = <<>> THEN (IF root = "" THEN "." ELSE root)
        ELSE root \o join_slash(parts)

----------------------------------------------------------------------------
(* The checkpoint cache *)

MODEL == "sac+logos+ava1-l14-linearMSE"

model_to_host == [m \in {"chadscorer", MODEL} |->
    IF m = "chadscorer"
    THEN "https://github.com/grexzen/SD-Chad/raw/main/chadscorer.pth"
    ELSE "https://github.com/christophschuhmann/improved-aesthetic-predictor/blob/main/sac+logos+ava1-l14-linearMSE.pth?raw=true"]

\* A faulty ensure_model that issues the GET whether or not the file is cached
EnsureModelAlwaysFetch(model, c, http_ok) ==
    LET file == model \o ".pth"
        made == [exists |-> TRUE, files |-> c.files]
    IN  IF model \notin DOMAIN model_to_host
        THEN [cache |-> made, gets |-> <<>>, outcome |-> "ValueError"]
        ELSE IF ~http_ok
        THEN [cache |-> made, gets |-> <<model_to_host[model]>>,
              outcome |-> "RequestException"]
        ELSE [cache |-> [made EXCEPT !.files = @ \cup {file}],
              gets |-> <<model_to_host[model]>>, outcome |-> "ok"]

\* ensure_model(model) on the cache directory c; http_ok: requests.get returns.
\* The result: the cache directory after the call, the URLs of the GETs issued,
\* and "ok" or the exception raised.
EnsureModel(model, c, http_ok) ==
    LET file == model \o ".pth"
        made == [exists |-> TRUE, files |-> c.files]     \* mkdir(exist_ok=True)
    IN  IF file \in made.files
        THEN [cache |-> made, gets |-> <<>>, outcome |-> "ok"]
        ELSE IF model \notin DOMAIN model_to_host
        THEN [cache |-> made, gets |-> <<>>, outcome |-> "ValueError"]
        ELSE IF ~http_ok
        THEN [cache |-> made, gets |-> <<model_to_host[model]>>,
              outcome |-> "RequestException"]
        ELSE [cache |-> [made EXCEPT !.files = @ \cup {file}],
              gets |-> <<model_to_host[model]>>, outcome |-> "ok"]

\* clear_cache() on the cache directory c
ClearCache(c) ==
    IF ~c.exists
    THEN [cache |-> c, outcome |-> "FileNotFoundError"]     \* os.listdir raises
    ELSE [cache |-> [c EXCEPT !.files = {}], outcome |-> "ok"]

\* The names ensure_model is called with, and the files a cache directory may hold
ModelNames == DOMAIN model_to_host \cup {"bogus"}
CacheFileNames == {m \o ".pth" : m \in ModelNames} \cup {"notes.txt"}

CacheStates ==
    {[exists |-> FALSE, files |-> {}]}
        \cup {[exists |-> TRUE, files |-> f] : f \in SUBSET CacheFileNames}

\* The record of one call
CallOfEnsure(model, c, r) ==
    [op |-> "ensure_model", model |-> model, existed |-> (model \o ".pth") \in c.files,
     gets |-> r.gets, outcome |-> r.outcome, files_after |-> r.cache.files]

CallOfClear(c, r) ==
    [op |-> "clear_cache", model |-> "", existed |-> FALSE,
     gets |-> <<>>, outcome |-> r.outcome, files_after |-> r.cache.files]

\* ensure_model(model) called on its own
EnsureModelCall ==
    /\ pc = "library"
    /\ Len(calls) < MaxCalls
    /\ \E model \in ModelNames, http_ok \in BOOLEAN :
          LET r == EnsureModel(model, cache, http_ok)
          IN  /\ cache' = r.cache
              /\ calls' = Append(calls, CallOfEnsure(model, cache, r))
    /\ UNCHANGED <<treeVars, mainVars>>

\* clear_cache() called on its own
ClearCacheCall ==
    /\ pc = "library"
    /\ Len(calls) < MaxCalls
    /\ LET r == ClearCache(cache)
       IN  /\ cache' = r.cache
           /\ calls' = Append(calls, CallOfClear(cache, r))
    /\ UNCHANGED <<treeVars, mainVars>>

----------------------------------------------------------------------------
(* The file system under args.image_file_or_dir *)

\* The name of node i is Stem(i) followed by an extension: siblings differ in name
Stems == <<"a", "b", "c", "d", "e", "f">>

FileExts == {".jpg", ".JPEG", ".Png", ".bmp", ".webp", ".avif", ".txt", "jpg"}
DirExts == {"", ".png"}

\* The nodes that may be added as node i to the tree t
NodeChoices(i, t, fileExts, dirExts) ==
    LET parents == {0} \cup {j \in DOMAIN t : t[j].kind = "dir"}
    IN  {[kind |-> "file", name |-> Stems[i] \o e, parent |-> p] :
            e \in fileExts, p \in parents}
        \cup {[kind |-> "dir", name |-> Stems[i] \o e, parent |-> p] :
            e \in dirExts, p \in parents}

\* The trees of exactly n nodes: every node's parent is the root (0) or an
\* earlier directory, so the tree is finite and acyclic
RECURSIVE TreesOf(_, _, _)
TreesOf(n, fileExts, dirExts) ==
    IF n = 0 THEN {<<>>}
    ELSE UNION {{Append(t, nd) : nd \in NodeChoices(n, t, fileExts, dirExts)} :
                    t \in TreesOf(n - 1, fileExts, dirExts)}

TreesUpTo(n, fileExts, dirExts) ==
    UNION {TreesOf(k, fileExts, dirExts) : k \in 0..n}

\* The node reached from node by the names comps, or -1 when there is none
RECURSIVE walk(_, _)
walk(node, comps) ==
    IF comps = <<>> THEN node
    ELSE LET next == {i \in DOMAIN fs : fs[i].parent = node /\ fs[i].name = comps[1]}
         IN  IF next = {} THEN -1
             ELSE walk(CHOOSE i \in next : TRUE, Tail(comps))

\* The node the file system finds for the path p: 0 for what
\* args.image_file_or_dir names (however it is spelled), an entry below it,
\* or -1 when the path names nothing in the tree
lookup(p) ==
    LET parts == path_parts(p)
        base == path_parts(args.image_file_or_dir)
    IN  IF /\ path_anchor(p) = path_anchor(args.image_file_or_dir)
           /\ Len(parts) >= Len(base)
           /\ SubSeq(parts, 1, Len(base)) = base
        THEN walk(0, SubSeq(parts, Len(base) + 1, Len(parts)))
        ELSE -1

\* Path(p).is_dir()
is_dir(p) ==
    LET n == lookup(p)
    IN  \/ n = 0 /\ rootKind = "dir"
        \/ n > 0 /\ fs[n].kind = "dir"

\* os.listdir(p): the names of the entries of directory p, in listing order
\* (node order; the names are given to the nodes in every possible way)
listdir(p) ==
    LET d == lookup(p)
        F[i \in 0..Len(fs)] ==
            IF i = 0 THEN <<>>
            ELSE IF fs[i].parent = d THEN Append(F[i - 1], fs[i].name)
            ELSE F[i - 1]
    IN  F[Len(fs)]

IMAGE_SUFFIXES == <<".jpg", ".jpeg", ".png", ".bmp", ".webp", ".avif">>

\* A faulty loop of get_files that does not descend into subdirectories
RECURSIVE get_files_in_flat(_, _)
get_files_in_flat(input_images, file_list) ==
    IF file_list = <<>> THEN <<>>
    ELSE LET full_file == path_join(input_images, Head(file_list))
             rest == get_files_in_flat(input_images, Tail(file_list))
         IN  IF is_dir(full_file) THEN rest
             ELSE IF endswith_any(lower(full_file), IMAGE_SUFFIXES)
             THEN <<full_file>> \o rest
             ELSE rest

RECURSIVE get_files(_), get_files_in(_, _)

\* The loop of get_files over file_list, the listing of directory input_images
get_files_in(input_images, file_list) ==
    IF file_list = <<>> THEN <<>>
    ELSE LET full_file == path_join(input_images, Head(file_list))
             rest == get_files_in(input_images, Tail(file_list))
         IN  IF is_dir(full_file) THEN get_files(full_file) \o rest
             ELSE IF endswith_any(lower(full_file), IMAGE_SUFFIXES)
             THEN <<full_file>> \o rest
             ELSE rest

\* get_files(file_or_dir): input_images = Path(file_or_dir) is the normalised
\* path, and the entries are joined to it.  The branch for a single file reads
\* the global args.image_file_or_dir, not its parameter, and returns it as given.
get_files(file_or_dir) ==
    LET input_images == Path(file_or_dir)
    IN  IF is_dir(input_images)
        THEN get_files_in(input_images, listdir(input_images))
        ELSE IF endswith_any(lower(args.image_file_or_dir), IMAGE_SUFFIXES)
        THEN <<args.image_file_or_dir>>
        ELSE <<>>

----------------------------------------------------------------------------
(* Device selection and model loading *)

DeviceStrings == {"cpu", "cuda", "cuda:1"}

\* torch.device(s): the device, or None when torch raises RuntimeError
torch_device(s) == IF s \in DeviceStrings THEN Some(s) ELSE None

\* get_device(args): Some(device), or None when it raises
get_device(a, cuda_available) ==
    IF a.device = Some("")                      \* args.device == str()
    THEN torch_device(a.device[1])
    ELSE torch_device(IF cuda_available THEN "cuda" ELSE "cpu")

\* sub in s
contains(s, sub) ==
    \E i \in 1..(Len(s) - Len(sub) + 1) : SubSeq(s, i, i + Len(sub) - 1) = sub

\* The input size load_model gives the predictor
input_size(clip_name) ==
    IF contains(clip_name, "ViT-L") THEN 768
    ELSE IF contains(clip_name, "ViT-B") THEN 512
    ELSE 768

----------------------------------------------------------------------------
(* Scoring, sorting and saving *)

\* A score as the predictor returns it (a tensor) and as save_to_csv leaves it
tensor(v) == [kind |-> "tensor", val |-> v]
float(v) == [kind |-> "float", val |-> v]

\* score.item()
item(score) == score.val

\* lst[i : i + n]
chunk_at(lst, i, n) == SubSeq(lst, i + 1, Min(i + n, Len(lst)))

\* A faulty reading of the loop variable: the first file of the chunk
loop_file_first(files_s) == files_s[1]

\* The value the inner loop "for file in files_s" leaves in the variable file
loop_file(files_s) == files_s[Len(files_s)]

\* The dicts appended for the chunk files_s: one per score, each with the
\* file left by the inner loop
chunk_records(files_s) ==
    [k \in 1..Len(files_s) |->
        [file |-> loop_file(files_s), score |-> tensor(predict[files_s[k]])]]

\* A faulty insertion that puts x before the records of equal score (unstable)
RECURSIVE insert_desc_unstable(_, _, _)
insert_desc_unstable(s, x, h) ==
    IF s = <<>> THEN <<x>>
    ELSE IF item(h[Head(s)].score) > item(h[x].score)
    THEN <<Head(s)>> \o insert_desc_unstable(Tail(s), x, h)
    ELSE <<x>> \o s

\* x put into the descending sequence s after every record whose score is not lower
RECURSIVE insert_desc(_, _, _)
insert_desc(s, x, h) ==
    IF s = <<>> THEN <<x>>
    ELSE IF item(h[Head(s)].score) >= item(h[x].score)
    THEN <<Head(s)>> \o insert_desc(Tail(s), x, h)
    ELSE <<x>> \o s

\* sorted(lst, key=lambda x: x["score"], reverse=True): stable, descending
sorted_desc(lst, h) ==
    LET F[i \in 0..Len(lst)] ==
            IF i = 0 THEN <<>> ELSE insert_desc(F[i - 1], lst[i], h)
    IN  F[Len(lst)]

\* The sum main accumulates over sorted_scores
acc_of(lst, h) ==
    LET F[i \in 0..Len(lst)] ==
            IF i = 0 THEN 0 ELSE F[i - 1] + item(h[lst[i]].score)
    IN  F[Len(lst)]

fieldnames == <<"file", "score">>

\* A faulty save_to_csv that leaves out the last row
save_to_csv_short(lst, h, full_path) ==
    [heap |-> h,
     rows |-> [k \in 1..(Len(lst) - 1) |->
                 <<path_join(full_path, h[lst[k]].file), item(h[lst[k]].score)>>]]

\* The loop of save_to_csv over the (shallow) copy of the list: each dict is
\* changed in place and then written.  The result: the heap and the rows.
RECURSIVE save_to_csv(_, _, _)
save_to_csv(lst, h, full_path) ==
    IF lst = <<>> THEN [heap |-> h, rows |-> <<>>]
    ELSE LET x == Head(lst)
             new == [file |-> path_join(full_path, h[x].file),
                     score |-> float(item(h[x].score))]
             rest == save_to_csv(Tail(lst), [h EXCEPT ![x] = new], full_path)
         IN  [heap |-> rest.heap,
              rows |-> <<<<new.file, new.score.val>>>> \o rest.rows]

\* The record count below which main prints every record
PrintLimit == 300

----------------------------------------------------------------------------
(* main *)

Fail(exception) ==
    /\ pc' = "error"
    /\ error' = exception

\* device = get_device(args)
GetDevice ==
    /\ pc = "get_device"
    /\ LET d == get_device(args, cuda)
       IN  IF d = None
           THEN Fail("RuntimeError") /\ UNCHANGED device
           ELSE device' = d /\ pc' = "load_model" /\ UNCHANGED error
    /\ UNCHANGED <<cacheVars, treeVars, predictor, clip_model, files, next_i,
                   n_chunks, progress_bar, heap, scores, sorted_scores,
                   acc_scores, printed, csv>>

\* predictor = load_model(args.model, args.clip_model, device)
LoadModel ==
    /\ pc = "load_model"
    /\ \E http_ok \in BOOLEAN :
          LET r == EnsureModel(args.model, cache, http_ok)
          IN  /\ cache' = r.cache
              /\ calls' = Append(calls, CallOfEnsure(args.model, cache, r))
              /\ IF r.outcome # "ok"
                 THEN Fail(r.outcome) /\ UNCHANGED predictor
                 ELSE /\ predictor' = Some([device |-> device[1],
                                            input_size |-> input_size(args.clip_model)])
                      /\ pc' = "load_clip"
                      /\ UNCHANGED error
    /\ UNCHANGED <<treeVars, device, clip_model, files, next_i, n_chunks,
                   progress_bar, heap, scores, sorted_scores, acc_scores,
                   printed, csv>>

\* clip_model, clip_image_processor = load_clip_model(args.clip_model, device)
LoadClip ==
    /\ pc = "load_clip"
    /\ clip_model' = Some([device |-> device[1], name |-> args.clip_model])
    /\ pc' = "get_files"
    /\ UNCHANGED <<cacheVars, treeVars, error, device, predictor, files, next_i,
                   n_chunks, progress_bar, heap, scores, sorted_scores,
                   acc_scores, printed, csv>>

\* scores = []; files = get_files(args.image_file_or_dir); the progress bar is
\* made unless --no_progress; the loop over chunks(files, batch_size) starts
GetFiles ==
    /\ pc = "get_files"
    /\ LET found == get_files(args.image_file_or_dir)
       IN  /\ files' = found
           /\ progress_bar' =
                IF args.no_progress # TRUE
                THEN Some([total |-> ceil(Len(found), args.batch_size),
                           n |-> 0, postfix |-> 0])
                ELSE None
           /\ pc' = IF Len(found) > 0 THEN "loop" ELSE "aggregate"
    /\ scores' = <<>>
    /\ next_i' = 0
    /\ UNCHANGED <<cacheVars, treeVars, error, device, predictor, clip_model,
                   n_chunks, heap, sorted_scores, acc_scores, printed, csv>>

\* One turn of "for files_s in chunks(files, args.batch_size)"
ScoreChunk ==
    /\ pc = "loop"
    /\ LET files_s == chunk_at(files, next_i, args.batch_size)
           new == chunk_records(files_s)
       IN  /\ heap' = heap \o new
           /\ scores' = scores \o [k \in 1..Len(new) |-> Len(heap) + k]
           /\ n_chunks' = n_chunks + 1
           /\ IF progress_bar = None
              THEN \* progress_bar.set_postfix on the unbound local
                   /\ Fail("UnboundLocalError")
                   /\ UNCHANGED <<progress_bar, next_i>>
              ELSE /\ progress_bar' =
                        Some([progress_bar[1] EXCEPT
                                !.postfix = Len(scores) + Len(new),
                                !.n = @ + 1])
                   /\ next_i' = next_i + args.batch_size
                   /\ pc' = IF next_i + args.batch_size < Len(files)
                            THEN "loop" ELSE "aggregate"
                   /\ UNCHANGED error
    /\ UNCHANGED <<cacheVars, treeVars, device, predictor, clip_model, files,
                   sorted_scores, acc_scores, printed, csv>>

\* del predictor, clip_model; sorted_scores = sorted(...); the records are
\* printed when fewer than 300; acc_scores is summed
Aggregate ==
    /\ pc = "aggregate"
    /\ predictor' = None
    /\ clip_model' = None
    /\ LET srt == sorted_desc(scores, heap)
       IN  /\ sorted_scores' = srt
           /\ printed' =
                IF Len(srt) < PrintLimit
                THEN [k \in 1..Len(srt) |->
                        <<heap[srt[k]].file, item(heap[srt[k]].score)>>]
                ELSE <<>>
           /\ acc_scores' = acc_of(srt, heap)
    /\ pc' = "report"
    /\ UNCHANGED <<cacheVars, treeVars, error, device, files, next_i, n_chunks,
                   progress_bar, heap, scores, csv>>

\* The end of main: the CSV is saved when asked for, the average is printed
Report ==
    /\ pc = "report"
    /\ IF Len(sorted_scores) > 0
       THEN LET full_path == IF args.store_full_path
                             THEN args.image_file_or_dir ELSE ""
                r == save_to_csv(scores, heap, full_path)
            IN  /\ IF args.save_csv
                   THEN heap' = r.heap /\ csv' = <<fieldnames>> \o r.rows
                   ELSE UNCHANGED <<heap, csv>>
                /\ printed' = Append(printed,
                        <<"average score", acc_scores, Len(sorted_scores)>>)
       ELSE /\ printed' = Append(printed, <<"no scores">>)
            /\ UNCHANGED <<heap, csv>>
    /\ pc' = "done"
    /\ UNCHANGED <<cacheVars, treeVars, error, device, predictor, clip_model,
                   files, next_i, n_chunks, progress_bar, scores, sorted_scores,
                   acc_scores>>

----------------------------------------------------------------------------
(* Specifications *)

\* main's variables before main runs
MainAt(start) ==
    /\ pc = start
    /\ error = ""
    /\ device = None
    /\ predictor = None
    /\ clip_model = None
    /\ files = <<>>
    /\ next_i = 0
    /\ n_chunks = 0
    /\ progress_bar = None
    /\ heap = <<>>
    /\ scores = <<>>
    /\ sorted_scores = <<>>
    /\ acc_scores = 0
    /\ printed = <<>>
    /\ csv = <<>>

ArgsOf(path, model, dev, batch, no_progress, store_full_path, save_csv) ==
    [image_file_or_dir |-> path, model |-> model, clip_model |-> "ViT-L/14",
     device |-> dev, batch_size |-> batch, no_progress |-> no_progress,
     store_full_path |-> store_full_path, save_csv |-> save_csv]

\* The cache: ensure_model and clear_cache called in any order, on any cache
InitCache ==
    /\ cache \in CacheStates
    /\ calls = <<>>
    /\ fs = <<>>
    /\ rootKind = "dir"
    /\ predict = <<>>
    /\ cuda = FALSE
    /\ args = ArgsOf("imgs", MODEL, None, 5, FALSE, FALSE, FALSE)
    /\ MainAt("library")

NextCache == EnsureModelCall \/ ClearCacheCall

SpecCache == InitCache /\ [][NextCache]_vars

\* The ways the command line names the directory (imgs, spelled plainly or
\* not, or the working directory), and the prefixes it puts before a single
\* file's name
DirSpellings == {"imgs", ".//imgs/./", "."}
FilePrefixes == {"", "./"}

\* File discovery: main's call of get_files on any tree, or on a single file
InitFiles ==
    /\ cache = [exists |-> TRUE, files |-> {MODEL \o ".pth"}]
    /\ calls = <<>>
    /\ \/ /\ rootKind = "dir"
          /\ fs \in TreesUpTo(MaxNodes, FileExts, DirExts)
          /\ \E root \in DirSpellings :
                args = ArgsOf(root, MODEL, None, 5, FALSE, FALSE, FALSE)
       \/ /\ rootKind = "file"
          /\ fs = <<>>
          /\ \E pre \in FilePrefixes, e \in FileExts :
                args = ArgsOf(pre \o "pic" \o e, MODEL, None, 5, FALSE, FALSE, FALSE)
    /\ predict = <<>>
    /\ cuda = FALSE
    /\ MainAt("get_files")

NextFiles == GetFiles

SpecFiles == InitFiles /\ [][NextFiles]_vars

\* A run of main
MainExts == {".png", ".txt"}
ScoreVals == 0..MaxScore

Init ==
    /\ cache \in {[exists |-> FALSE, files |-> {}],
                  [exists |-> TRUE, files |-> {MODEL \o ".pth"}]}
    /\ calls = <<>>
    /\ rootKind = "dir"
    /\ fs \in TreesUpTo(MaxFiles, MainExts, {})
    /\ cuda \in BOOLEAN
    /\ \E model \in {MODEL, "bogus"}, dev \in {None, Some(""), Some("cpu")},
          batch \in 1..MaxBatch, no_progress, store_full_path, save_csv \in BOOLEAN :
          args = ArgsOf("imgs", model, dev, batch, no_progress, store_full_path, save_csv)
    /\ predict \in [Range(get_files(args.image_file_or_dir)) -> ScoreVals]
    /\ MainAt("get_device")

Next ==
    \/ GetDevice
    \/ LoadModel
    \/ LoadClip
    \/ GetFiles
    \/ ScoreChunk
    \/ Aggregate
    \/ Report

Spec == Init /\ [][Next]_vars

----------------------------------------------------------------------------
(* Properties of the checkpoint cache (SpecCache) *)

KnownModel(m) == m \in DOMAIN model_to_host

\* C1: ensure_model of a name that is not in the name-to-URL table fails with
\* the invalid-model error (ValueError) and issues no HTTP GET, whatever the
\* cache directory holds.
C1_UnknownNameFails ==
    \A k \in DOMAIN calls :
        (calls[k].op = "ensure_model" /\ ~KnownModel(calls[k].model))
            => (calls[k].outcome = "ValueError" /\ calls[k].gets = <<>>)

\* What does hold of an unknown name: no GET is issued, and the call fails
\* exactly when the cache holds no file <name>.pth.
UnknownNameNoFetch ==
    \A k \in DOMAIN calls :
        (calls[k].op = "ensure_model" /\ ~KnownModel(calls[k].model))
            => /\ calls[k].gets = <<>>
               /\ calls[k].outcome = IF calls[k].existed THEN "ok" ELSE "ValueError"

\* C2: ensure_model of a known name issues exactly one GET (of the name's URL)
\* when <name>.pth is absent and none when it is present, and the file exists
\* when it returns normally; after clear_cache returns the directory holds no
\* file, so the ensure_model that follows fetches again.
C2_FetchIffAbsent ==
    \A k \in DOMAIN calls :
        LET c == calls[k]
        IN  /\ (c.op = "ensure_model" /\ KnownModel(c.model)) =>
                /\ c.existed => (c.gets = <<>> /\ c.outcome = "ok")
                /\ ~c.existed => c.gets = <<model_to_host[c.model]>>
                /\ c.outcome = "ok" => (c.model \o ".pth") \in c.files_after
            /\ (c.op = "clear_cache" /\ c.outcome = "ok") => c.files_after = {}
            /\ (/\ k > 1
                /\ calls[k - 1].op = "clear_cache" /\ calls[k - 1].outcome = "ok"
                /\ c.op = "ensure_model" /\ KnownModel(c.model))
                    => Len(c.gets) = 1
            /\ k = Len(calls) => cache.files = c.files_after

\* A fetch, a clear_cache, and the same name fetched again
C2_Witness ==
    /\ Len(calls) = 3
    /\ calls[1].op = "ensure_model" /\ calls[1].model = MODEL
    /\ calls[1].outcome = "ok" /\ Len(calls[1].gets) = 1
    /\ calls[2].op = "clear_cache" /\ calls[2].outcome = "ok"
    /\ calls[3].op = "ensure_model" /\ calls[3].model = MODEL
    /\ calls[3].outcome = "ok" /\ Len(calls[3].gets) = 1
    /\ (MODEL \o ".pth") \in cache.files

----------------------------------------------------------------------------
(* Properties of file discovery (SpecFiles) *)

\* The extensions of FileExts that are on the allow-list, whatever their case
ImageExts == {".jpg", ".JPEG", ".Png", ".bmp", ".webp", ".avif"}

\* The names from the directory down to node i, written out with "/"
RECURSIVE RelPath(_)
RelPath(i) ==
    IF fs[i].parent = 0 THEN fs[i].name
    ELSE RelPath(fs[i].parent) \o "/" \o fs[i].name

\* The path get_files gives for node i: under imgs, however the directory is
\* spelled; under the working directory ".", with "./" for the entries of the
\* directory itself and without it below
ExpectedPath(i) ==
    IF args.image_file_or_dir = "."
    THEN (IF fs[i].parent = 0 THEN "./" ELSE "") \o RelPath(i)
    ELSE "imgs/" \o RelPath(i)

\* The non-directory entries, at any depth, with an extension on the allow-list
ExpectedNodes ==
    {j \in DOMAIN fs :
        /\ fs[j].kind = "file"
        /\ \E e \in ImageExts : fs[j].name = Stems[j] \o e}

ExpectedFiles == {ExpectedPath(i) : i \in ExpectedNodes}

\* C3: get_files on a directory returns exactly the non-directory entries at
\* any depth whose extension is on the allow-list (case-insensitive), each
\* once (as the path os.path.join builds from the normalised directory); on
\* a single file it returns that path alone, as given, when its extension is
\* on the allow-list and nothing otherwise.
C3_DiscoverExact ==
    pc # "get_files" =>
        IF rootKind = "dir"
        THEN /\ Range(files) = ExpectedFiles
             /\ Len(files) = Cardinality(ExpectedNodes)
        ELSE files = IF \E e \in ImageExts :
                            args.image_file_or_dir \in {"pic" \o e, "./pic" \o e}
                     THEN <<args.image_file_or_dir>>
                     ELSE <<>>

\* A listing with an upper-case image inside a subdirectory and a file that is
\* left out
C3_Witness ==
    /\ pc # "get_files"
    /\ rootKind = "dir"
    /\ \E i, j, d \in DOMAIN fs :
          /\ fs[d].kind = "dir" /\ fs[i].parent = d
          /\ fs[i].kind = "file" /\ fs[i].name = Stems[i] \o ".JPEG"
          /\ ExpectedPath(i) \in Range(files)
          /\ fs[j].kind = "file" /\ fs[j].name = Stems[j] \o ".txt"
          /\ ExpectedPath(j) \notin Range(files)

----------------------------------------------------------------------------
(* Properties of main (Spec) *)

\* The 1-based index in files of the last file of the chunk that holds file k
LastOfChunk(k) ==
    Min((((k - 1) \div args.batch_size) + 1) * args.batch_size, Len(files))

\* The k-th record as the loop creates it
CreatedRecord(k) ==
    [file |-> files[LastOfChunk(k)], score |-> tensor(predict[files[k]])]

LoopOver == pc \in {"aggregate", "report", "done"}
             \/ (pc = "error" /\ error = "UnboundLocalError")

\* C4: the loop takes the files in consecutive chunks of batch_size (the last
\* may be shorter), ceil(n / batch_size) chunks in all, and when it is over
\* the score list holds one record per file.
C4_AllChunksScored ==
    LoopOver =>
        /\ Len(scores) = Len(files)
        /\ n_chunks = ceil(Len(files), args.batch_size)

\* What does hold: with the progress bar bound the loop scores every chunk,
\* and a chunk is never empty nor longer than batch_size.
ChunkingWithBar ==
    /\ (LoopOver /\ ~args.no_progress) =>
            /\ Len(scores) = Len(files)
            /\ n_chunks = ceil(Len(files), args.batch_size)
    /\ pc = "loop" =>
            /\ Len(scores) = next_i
            /\ next_i = n_chunks * args.batch_size
            /\ Len(chunk_at(files, next_i, args.batch_size)) \in 1..args.batch_size

\* C5: every record appended for a chunk carries the last file of that chunk,
\* and the score of the image at its own position; its file is the scored
\* image's file only for the last image of a chunk.
C5_RecordHasLastFileOfChunk ==
    csv = <<>> =>
        \A k \in DOMAIN heap :
            /\ heap[k] = CreatedRecord(k)
            /\ (heap[k].file = files[k]) <=> (k = LastOfChunk(k))

\* A chunk of two files has given two records with the second file's name
C5_Witness ==
    /\ args.batch_size >= 2
    /\ Len(heap) >= 2
    /\ heap[1].file = files[2]
    /\ heap[2].file = files[2]
    /\ files[1] # files[2]

\* C6: the CSV holds the header file,score and then one row per record, in
\* the order the records were created, each with the record's numeric score.
C6_CsvInCreationOrder ==
    csv # <<>> =>
        /\ Len(scores) >= 1
        /\ Len(csv) = Len(scores) + 1
        /\ csv[1] = <<"file", "score">>
        /\ \A k \in 1..Len(scores) :
              /\ scores[k] = k
              /\ csv[k + 1][2] = predict[files[k]]
              /\ csv[k + 1][2] = item(heap[scores[k]].score)

\* A CSV of three lines whose order is not the descending order
C6_Witness ==
    /\ Len(csv) = 3
    /\ csv[2][2] < csv[3][2]
    /\ sorted_scores # scores

\* C7: sorted_scores is a permutation of scores, in non-increasing score
\* order, with records of equal score in their original order; sorting it
\* again gives the same sequence.
C7_SortStableIdempotent ==
    pc \in {"report", "done"} =>
        /\ Len(sorted_scores) = Len(scores)
        /\ Range(sorted_scores) = Range(scores)
        /\ \A i, j \in DOMAIN sorted_scores :
              i < j =>
                 /\ item(heap[sorted_scores[i]].score) >= item(heap[sorted_scores[j]].score)
                 /\ item(heap[sorted_scores[i]].score) = item(heap[sorted_scores[j]].score)
                       => sorted_scores[i] < sorted_scores[j]
        /\ sorted_desc(sorted_scores, heap) = sorted_scores

\* A sort that moved a record and kept two records of equal score in order
C7_Witness ==
    /\ pc = "report"
    /\ sorted_scores # scores
    /\ \E i, j \in DOMAIN sorted_scores :
          /\ i < j
          /\ item(heap[sorted_scores[i]].score) = item(heap[sorted_scores[j]].score)

\* C8: a record keeps the file and the score it was created with until the
\* run ends.
C8_RecordsImmutable ==
    \A k \in DOMAIN heap : heap[k] = CreatedRecord(k)

\* C9: get_device returns the device the user names with --device, detects
\* one only when --device is omitted, and the predictor is put on it.
C9_DeviceHonoured ==
    (pc \notin {"get_device", "error"}) =>
        /\ (args.device # None /\ args.device[1] \in DeviceStrings)
                => device = args.device
        /\ args.device = None => device = Some(IF cuda THEN "cuda" ELSE "cpu")
        /\ predictor # None => predictor[1].device = device[1]

\* C10: --no_progress never makes the run fail: the progress bar is used only
\* where it was made.
C10_NoProgressHarmless ==
    args.no_progress => ~(pc = "error" /\ error = "UnboundLocalError")

====
